---- MODULE Spec2Model ----
(***************************************************************************)
(* Model of src/app.py: the video annotation pipeline (frame sampling,     *)
(* per-frame vision analysis, audio transcription / translation, record    *)
(* aggregation), and the assistant / metadata query layer.                 *)
(*                                                                         *)
(* Conventions                                                             *)
(*  - Real numbers (fps, timestamps, duration) are exact rationals         *)
(*    [n |-> numerator, d |-> denominator] with d > 0; the reported fps is *)
(*    carried in hundredths (fps100 = 100 * fps).                          *)
(*  - Python None is the record None; Python str(x) is Str(x);             *)
(*    json.dumps / json.loads are JsonDumps / JsonLoads.                   *)
(*  - External services (OpenCV decoder, vision, transcription, language   *)
(*    detection, translation, assistant backend) are the environment:      *)
(*    their outcomes are drawn with \E from small sets.                    *)
(***************************************************************************)
EXTENDS Integers, Sequences, FiniteSets, TLC

(***************************************************************************)
(* Bounds of the model                                                     *)
(***************************************************************************)
MaxFrames == 5
MaxSegs == 1
MaxTransFail == 1
MaxQueries == 2
MaxPatternSegs == 2
MaxHours == 1
MaxCallers == 2

(***************************************************************************)
(* Program constants                                                       *)
(***************************************************************************)
SampleRate == 2
FallbackFps == 30

None == [none |-> TRUE]

\* no exception has reached main's except clause
NoError == "none"

\* VideoProcessor.supported_languages: code -> language name
supported_languages ==
    [code \in {"en-US", "ar-AR", "zh-CN", "ta-IN", "ms-MY"} |->
        CASE code = "en-US" -> "English"
          [] code = "ar-AR" -> "Arabic"
          [] code = "zh-CN" -> "Mandarin"
          [] code = "ta-IN" -> "Tamil"
          [] code = "ms-MY" -> "Malay"]

(***************************************************************************)
(* Inputs: the videos a user may upload.  fps is in hundredths.            *)
(*   -100 : negative fps       0 : fps 0         25 : 0.25 fps (fps*2 < 1) *)
(*    100 : 1 fps (step 2)   150 : 1.5 fps (step 3)                        *)
(*   2997 : 29.97 fps (NTSC; fps * 2 = 59.94)                              *)
(* readable = number of frames cap.read() delivers before ret is False;    *)
(* readable < total_frames is a decode failure before the end of stream.   *)
(***************************************************************************)
FpsSet == {-100, 0, 25, 100, 150, 2997}

Videos ==
    {[opened |-> FALSE, fps100 |-> 0, total_frames |-> 0, readable |-> 0]}
    \cup
    {v \in [opened : {TRUE}, fps100 : FpsSet,
             total_frames : 0..MaxFrames, readable : 0..MaxFrames] :
        v.readable <= v.total_frames}

(***************************************************************************)
(* Arithmetic helpers                                                      *)
(***************************************************************************)
\* Python int(x) of the rational n/d (d > 0): truncation toward zero
PyInt(n, d) == IF n >= 0 THEN n \div d ELSE -((-n) \div d)

\* Python a % b for b # 0 (result takes the sign of the divisor)
PyMod(a, b) == IF b > 0 THEN a % b ELSE -((-a) % (-b))

Rat(n, d) == [n |-> n, d |-> d]
RatLeq(x, y) == x.n * y.d <= y.n * x.d
RatEq(x, y) == x.n * y.d = y.n * x.d

(***************************************************************************)
(* Conversions                                                             *)
(***************************************************************************)
\* str(x): the text of a number
Str(x) == [str |-> x]

\* json.dumps(obj): the JSON text of obj
JsonDumps(obj) == [json |-> obj]

\* json.loads(s): raises unless s is JSON text
IsJson(s) == "json" \in DOMAIN s
JsonLoads(s) == s.json

(***************************************************************************)
(* VideoProcessor.extract_frames, lines 216-232: the values computed       *)
(* before the read loop                                                    *)
(***************************************************************************)
\* frame_interval = int(fps * sample_rate)
FrameInterval(fps100, sample_rate) == PyInt(fps100 * sample_rate, 100)

\* duration = total_frames / fps if fps > 0 else 0
Duration(total_frames, fps100) ==
    IF fps100 > 0 THEN Rat(total_frames * 100, fps100) ELSE Rat(0, 1)

\* if fps <= 0: fps = 30
EffectiveFps100(fps100) == IF fps100 <= 0 THEN FallbackFps * 100 ELSE fps100

\* timestamp = current_frame / fps
Timestamp(current_frame, fpsEff100) == Rat(current_frame * 100, fpsEff100)

\* KeepFrame that keeps the last frame of each interval instead of the first
KeepFrame_last_of_interval(current_frame, frame_interval) ==
    PyMod(current_frame + 1, frame_interval) = 0

\* if current_frame % frame_interval == 0
KeepFrame(current_frame, frame_interval) ==
    PyMod(current_frame, frame_interval) = 0

VideoMetadataOf(v) ==
    [fps100 |-> v.fps100,
     duration |-> Duration(v.total_frames, v.fps100),
     total_frames |-> v.total_frames,
     frame_interval |-> FrameInterval(v.fps100, SampleRate)]

(***************************************************************************)
(* VideoProcessor.analyze_frame                                            *)
(***************************************************************************)
\* What the vision service answers for a frame when the call succeeds
VisionAnswer(frame_number) ==
    IF frame_number % 2 = 0
    THEN [description |-> "a person walking",
          objects_detected |-> <<"person">>,
          scene_type |-> "outdoor"]
    ELSE [description |-> "an empty room",
          objects_detected |-> <<"chair", "table">>,
          scene_type |-> "indoor"]

\* Outcomes of one vision call: parsed answer, LengthFinishReasonError,
\* or any other exception
VisionOutcomes == {"ok", "length", "error"}

\* analyze_frame whose generic except branch forgets the error scene type
analyze_frame_no_sentinel(frame_number, outcome) ==
    CASE outcome = "ok" ->
            JsonDumps(VisionAnswer(frame_number))
      [] outcome = "length" ->
            JsonDumps([description |-> "Error: Response exceeded token limit",
                       objects_detected |-> <<>>,
                       scene_type |-> "error"])
      [] OTHER ->
            JsonDumps([description |-> "Error analyzing frame: <exception>",
                       objects_detected |-> <<>>,
                       scene_type |-> "unknown"])

analyze_frame(frame_number, outcome) ==
    CASE outcome = "ok" ->
            JsonDumps([description |-> VisionAnswer(frame_number).description,
                       objects_detected |-> VisionAnswer(frame_number).objects_detected,
                       scene_type |-> VisionAnswer(frame_number).scene_type])
      [] outcome = "length" ->
            JsonDumps([description |-> "Error: Response exceeded token limit",
                       objects_detected |-> <<>>,
                       scene_type |-> "error"])
      [] OTHER ->
            JsonDumps([description |-> "Error analyzing frame: <exception>",
                       objects_detected |-> <<>>,
                       scene_type |-> "error"])

(***************************************************************************)
(* VideoProcessor.translate_text / detect_language /                       *)
(* extract_audio_with_translations                                         *)
(***************************************************************************)
\* The transcript of a video with n segments (whisper verbose_json)
SegmentsOf(n) ==
    [k \in 1..n |-> [start |-> 2 * (k - 1), end |-> 2 * k - 1,
                     text |-> [lang |-> "source", of |-> k]]]

\* What the language detection service may answer (after .strip())
DetectAnswers == {"en-US", "fr-FR"}

\* detect_language: the service's answer, or "en-US" when the call raises
detect_language(answer, raised) == IF raised THEN "en-US" ELSE answer

\* translate_text that returns an empty text when the call raises
translate_text_empty_on_failure(text, target_language, raised) ==
    IF raised THEN [lang |-> "none", of |-> 0]
    ELSE [lang |-> target_language, of |-> text.of]

\* translate_text: the service's translation, or the text itself when the
\* call raises
translate_text(text, target_language, raised) ==
    IF raised THEN text ELSE [lang |-> target_language, of |-> text.of]

SubtitleEntryOf(segment, text) ==
    [inpoint |-> Str(segment.start), outpoint |-> Str(segment.end), text |-> text]

LangCodes == DOMAIN supported_languages

\* BuildSubtitles that skips a segment whose translation call raised
BuildSubtitles_drop_failed(segments, source_language, failT) ==
    [code \in {source_language} \cup LangCodes |->
        IF code = source_language
        THEN [k \in 1..Len(segments) |->
                 SubtitleEntryOf(segments[k], segments[k].text)]
        ELSE LET kept == SelectSeq(segments,
                             LAMBDA seg : <<code, seg.text.of>> \notin failT)
             IN  [k \in 1..Len(kept) |->
                     SubtitleEntryOf(kept[k],
                         translate_text(kept[k].text,
                                        supported_languages[code], FALSE))]]

\* lines 329-353: failT is the set of <<lang_code, k>> whose translation
\* call raises
BuildSubtitles(segments, source_language, failT) ==
    [code \in {source_language} \cup LangCodes |->
        IF code = source_language
        THEN [k \in 1..Len(segments) |->
                 SubtitleEntryOf(segments[k], segments[k].text)]
        ELSE [k \in 1..Len(segments) |->
                 SubtitleEntryOf(segments[k],
                     translate_text(segments[k].text,
                                    supported_languages[code],
                                    <<code, k>> \in failT))]]

\* except Exception as e: return {"error": str(e)}
AudioError(msg) == [key \in {"error"} |-> msg]

\* Failure points of the audio stage: VideoFileClip raises, the video has
\* no audio track, write_audiofile raises, the transcription call raises
AudioFailures == {"clip", "noaudio", "write", "transcribe"}

(***************************************************************************)
(* MetadataManager.format_duration                                         *)
(***************************************************************************)
\* A string is the sequence of its characters
DigitChars == <<"0", "1", "2", "3", "4", "5", "6", "7", "8", "9">>

\* the decimal digits of n >= 0
RECURSIVE Digits(_)
Digits(n) ==
    IF n < 10 THEN <<DigitChars[n + 1]>>
    ELSE Digits(n \div 10) \o <<DigitChars[(n % 10) + 1]>>

\* the format spec 02d: at least two digits, padded with "0" on the left
Pad2(n) == IF n < 10 THEN <<"0">> \o Digits(n) ELSE Digits(n)

\* format_duration that counts the sub-second part in 30ths of a second
format_duration_30fps(seconds) ==
    LET n == seconds.n
        d == seconds.d
        hours == n \div (3600 * d)
        minutes == (n % (3600 * d)) \div (60 * d)
        secs == (n % (60 * d)) \div d
        frames == ((n % d) * 30) \div d
    IN  Pad2(hours) \o <<":">> \o Pad2(minutes) \o <<":">> \o Pad2(secs)
            \o <<":">> \o Pad2(frames)

\* seconds is the rational n / d; x // y and x % y are floor division and
\* its remainder
format_duration(seconds) ==
    LET n == seconds.n
        d == seconds.d
        hours == n \div (3600 * d)
        minutes == (n % (3600 * d)) \div (60 * d)
        secs == (n % (60 * d)) \div d
        frames == ((n % d) * 24) \div d
    IN  Pad2(hours) \o <<":">> \o Pad2(minutes) \o <<":">> \o Pad2(secs)
            \o <<":">> \o Pad2(frames)

(***************************************************************************)
(* MetadataManager.create_metadata_df                                      *)
(***************************************************************************)
\* lines 467-477
ParseMetadata(metadata_str) ==
    IF IsJson(metadata_str)
    THEN JsonLoads(metadata_str)
    ELSE [description |-> metadata_str,
          objects_detected |-> <<>>,
          scene_type |-> "unknown"]

\* lines 480-487: the DataFrame, one row per frame
MetadataDf(frame_metadata, timestamps, frame_numbers) ==
    [rows |->
        [i \in 1..Len(frame_metadata) |->
            [frame_number |-> frame_numbers[i],
             timestamp |-> timestamps[i],
             formatted_time |-> Str(PyInt(timestamps[i].n, timestamps[i].d)),
             frame_description |-> ParseMetadata(frame_metadata[i]).description,
             objects_detected |-> ParseMetadata(frame_metadata[i]).objects_detected,
             scene_type |-> ParseMetadata(frame_metadata[i]).scene_type]]]

\* EventData that lists the events latest first
EventData_reversed(df) ==
    [i \in 1..Len(df.rows) |->
        [eventID |-> df.rows[Len(df.rows) + 1 - i].frame_description,
         eventImageURL |-> "",
         inpoint |-> df.rows[Len(df.rows) + 1 - i].timestamp,
         outpoint |-> df.rows[Len(df.rows) + 1 - i].timestamp]]

\* lines 490-497: float(row['timestamp']) of a float is the float itself
EventData(df) ==
    [i \in 1..Len(df.rows) |->
        [eventID |-> df.rows[i].frame_description,
         eventImageURL |-> "",
         inpoint |-> df.rows[i].timestamp,
         outpoint |-> df.rows[i].timestamp]]

\* lines 500-528 (time.time() and uuid4() values are the tokens "time", "uuid")
StructuredData(df, audio, vmeta) ==
    [index |-> "time",
     id |-> "uuid",
     version |-> 1,
     seq_no |-> "time",
     primary_term |-> 1,
     found |-> TRUE,
     source |->
        [description |-> "",
         title |-> None,
         file_id |-> "time",
         lls_kv_id |-> "time",
         thumbnail |-> "uuid.png",
         clip_name |-> "FIN-time",
         clip_title |-> "time",
         duration |-> format_duration(vmeta.duration),
         proxy_uri |-> "",
         relative_path |-> "//",
         tracks |-> [caption |-> [eventData |-> EventData(df)]],
         subtitles |-> audio]]

(***************************************************************************)
(* MetadataManager.export_metadata.  json.dumps writes a Python value as   *)
(* a JSON value by its type: None -> null, bool -> true / false, int and   *)
(* float -> number, str -> string, list -> array, dict -> object;          *)
(* json.loads reads it back by the kind of the JSON value.                 *)
(***************************************************************************)
JNull == [t |-> "null"]
JBool(b) == [t |-> "bool", v |-> b]
JNum(x) == [t |-> "num", v |-> x]
JStr(x) == [t |-> "str", v |-> x]
JArr(items) == [t |-> "arr", items |-> items]
JObj(members) == [t |-> "obj", members |-> members]

\* one event of eventData: two strings and two floats
JsonOfEvent(e) ==
    JObj([eventID |-> JStr(e.eventID),
          eventImageURL |-> JStr(e.eventImageURL),
          inpoint |-> JNum(e.inpoint),
          outpoint |-> JNum(e.outpoint)])

\* one subtitle entry: three strings
JsonOfEntry(x) ==
    JObj([inpoint |-> JStr(x.inpoint),
          outpoint |-> JStr(x.outpoint),
          text |-> JStr(x.text)])

\* the subtitles dict: a list of entries per language code, or the string of
\* the "error" key
JsonOfSubtitles(sub) ==
    JObj([code \in DOMAIN sub |->
            IF code = "error" THEN JStr(sub[code])
            ELSE JArr([k \in 1..Len(sub[code]) |-> JsonOfEntry(sub[code][k])])])

JsonOfSource(src) ==
    JObj([description |-> JStr(src.description),
          title |-> JNull,
          file_id |-> JNum(src.file_id),
          lls_kv_id |-> JNum(src.lls_kv_id),
          thumbnail |-> JStr(src.thumbnail),
          clip_name |-> JStr(src.clip_name),
          clip_title |-> JStr(src.clip_title),
          duration |-> JStr(src.duration),
          proxy_uri |-> JStr(src.proxy_uri),
          relative_path |-> JStr(src.relative_path),
          tracks |-> JObj([caption |-> JObj([eventData |->
                        JArr([i \in 1..Len(src.tracks.caption.eventData) |->
                                JsonOfEvent(src.tracks.caption.eventData[i])])])]),
          subtitles |-> JsonOfSubtitles(src.subtitles)])

\* the JSON value of structured_data (None before the first run)
JsonOfRecord(sd) ==
    IF sd = None THEN JNull
    ELSE JObj([index |-> JStr(sd.index),
               id |-> JStr(sd.id),
               version |-> JNum(sd.version),
               seq_no |-> JNum(sd.seq_no),
               primary_term |-> JNum(sd.primary_term),
               found |-> JBool(sd.found),
               source |-> JsonOfSource(sd.source)])

\* json.dumps(obj, ensure_ascii=False, indent=2): the text of a JSON value
JsonText(value) == [text_of |-> value, indent |-> 2]

\* str.encode('utf-8') and bytes.decode('utf-8')
Utf8Encode(text) == [utf8 |-> text]
Utf8Decode(bytes) == bytes.utf8

\* json.loads: the Python value of a JSON value
RECURSIVE FromJson(_)
FromJson(j) ==
    CASE j.t = "null" -> None
      [] j.t \in {"bool", "num", "str"} -> j.v
      [] j.t = "arr" -> [i \in 1..Len(j.items) |-> FromJson(j.items[i])]
      [] j.t = "obj" -> [k \in DOMAIN j.members |-> FromJson(j.members[k])]

JsonParse(text) == FromJson(text.text_of)

\* DataFrame.to_csv(index=False): a header line and one line per row
ToCsv(df) ==
    [header |-> <<"frame_number", "timestamp", "formatted_time",
                  "frame_description", "objects_detected", "scene_type">>,
     lines |-> df.rows]

\* the workbook: sheet 'Video Metadata' and sheet 'Structured Output'
ToExcel(df, sd) ==
    [xlsx |-> [Video_Metadata |-> df.rows, Structured_Output |-> <<sd>>]]

\* export_metadata whose JSON export writes the source part only
export_metadata_source_only(manager, format_type) ==
    CASE format_type = "json" ->
            [value |-> Utf8Encode(JsonText(
                IF manager.structured_data = None THEN JNull
                ELSE JsonOfSource(manager.structured_data.source)))]
      [] format_type = "csv" ->
            IF manager.metadata_df = None
            THEN [exception |-> "AttributeError"]
            ELSE [value |-> ToCsv(manager.metadata_df)]
      [] format_type = "excel" ->
            IF manager.metadata_df = None
            THEN [exception |-> "AttributeError"]
            ELSE [value |-> ToExcel(manager.metadata_df,
                                    manager.structured_data)]
      [] OTHER -> [exception |-> "ValueError"]

\* lines 592-615: the returned value, or the exception raised
export_metadata(manager, format_type) ==
    CASE format_type = "json" ->
            [value |-> Utf8Encode(JsonText(JsonOfRecord(manager.structured_data)))]
      [] format_type = "csv" ->
            IF manager.metadata_df = None
            THEN [exception |-> "AttributeError"]
            ELSE [value |-> ToCsv(manager.metadata_df)]
      [] format_type = "excel" ->
            IF manager.metadata_df = None
            THEN [exception |-> "AttributeError"]
            ELSE [value |-> ToExcel(manager.metadata_df,
                                    manager.structured_data)]
      [] OTHER -> [exception |-> "ValueError"]

\* format_type values a caller may pass
FormatTypes == {"json", "csv", "excel", "subtitles-only", "scene-summary", "xml"}

(***************************************************************************)
(* State                                                                   *)
(***************************************************************************)
VARIABLES
    pc,             \* position of main's "Process Video" handler
    video,          \* the uploaded video (input of the run)
    cap,            \* cv2.VideoCapture handle: "none", "open", "closed", "released"
    current_frame,  \* extract_frames: index of the next frame to read
    timestamps,     \* extract_frames: timestamps of the kept frames
    frame_numbers,  \* extract_frames: indices of the kept frames
    frame_metadata, \* main: analyze_frame results, in call order
    vision_log,     \* history: outcome of each vision call, in call order
    audio_data,     \* main: result of extract_audio_with_translations
    audio_log,      \* history: what happened inside the audio stage
    files,          \* temp files / handles: clip, audio_tmp, video_tmp, json_tmp
    mm,             \* MetadataManager: metadata_df, video_metadata, structured_data
    session,        \* st.session_state
    assistant,      \* VideoProcessor.assistant
    run_error,      \* exception caught by main's except clause, or NoError
    backend,        \* assistant backend: uploaded files, threads, messages, runs
    query           \* the query / export call in progress, its result, and
                    \* the history of the exports made so far

vars == <<pc, video, cap, current_frame, timestamps, frame_numbers,
          frame_metadata, vision_log, audio_data, audio_log, files, mm,
          session, assistant, run_error, backend, query>>

pipelineVars == <<pc, video, cap, current_frame, timestamps, frame_numbers,
                  frame_metadata, vision_log, audio_data, audio_log, files,
                  mm, session, run_error>>

NoVideo == [opened |-> FALSE, fps100 |-> 0, total_frames |-> 0, readable |-> -1]

Init ==
    /\ pc = "idle"
    /\ video = NoVideo
    /\ cap = "none"
    /\ current_frame = 0
    /\ timestamps = <<>>
    /\ frame_numbers = <<>>
    /\ frame_metadata = <<>>
    /\ vision_log = <<>>
    /\ audio_data = None
    /\ audio_log = None
    /\ files = [clip |-> FALSE, audio_tmp |-> FALSE, video_tmp |-> FALSE,
                json_tmp |-> FALSE]
    \* MetadataManager.__init__
    /\ mm = [metadata_df |-> None, video_metadata |-> None,
             structured_data |-> None]
    \* init_session_state
    /\ session = [video_processed |-> FALSE, metadata_manager |-> None,
                  current_assistant_id |-> None]
    \* VideoProcessor.__init__
    /\ assistant = None
    /\ run_error = NoError
    /\ backend = [files |-> 0, threads |-> 0, messages |-> 0, runs |-> 0]
    /\ query = [pc |-> "idle", call |-> "none", result |-> None, calls |-> 0,
                failure |-> "none", exports |-> <<>>]

(***************************************************************************)
(* main, lines 951-976 and extract_frames, lines 211-232                   *)
(***************************************************************************)
ProcessVideo(v) ==
    /\ pc = "idle"
    /\ query.pc = "idle"
    /\ video' = v
    /\ files' = [files EXCEPT !.video_tmp = TRUE]
    /\ cap' = IF v.opened THEN "open" ELSE "closed"
    /\ current_frame' = 0
    /\ timestamps' = <<>>
    /\ frame_numbers' = <<>>
    /\ pc' = "extract"
    /\ UNCHANGED <<frame_metadata, vision_log, audio_data, audio_log, mm,
                   session, assistant, run_error, backend, query>>

\* main's "except Exception" and "finally: os.unlink(video_path)"
MainExcept(e, fs) ==
    /\ run_error' = e
    /\ files' = [fs EXCEPT !.video_tmp = FALSE]
    /\ pc' = "done"

\* ret of cap.read()
ReadOk == cap = "open" /\ current_frame < video.readable

\* extract_frames, lines 233-250: one iteration of the read loop
ReadFrame ==
    /\ pc = "extract"
    /\ ReadOk
    /\ FrameInterval(video.fps100, SampleRate) # 0
    /\ IF KeepFrame(current_frame, FrameInterval(video.fps100, SampleRate))
       THEN /\ timestamps' = Append(timestamps,
                   Timestamp(current_frame, EffectiveFps100(video.fps100)))
            /\ frame_numbers' = Append(frame_numbers, current_frame)
       ELSE UNCHANGED <<timestamps, frame_numbers>>
    /\ current_frame' = current_frame + 1
    /\ UNCHANGED <<pc, video, cap, frame_metadata, vision_log, audio_data,
                   audio_log, files, mm, session, assistant, run_error,
                   backend, query>>

\* extract_frames, line 238 with frame_interval = 0: ZeroDivisionError leaves
\* extract_frames (cap.release() is skipped) and reaches main's except
ReadFrameRaises ==
    /\ pc = "extract"
    /\ ReadOk
    /\ FrameInterval(video.fps100, SampleRate) = 0
    /\ MainExcept("ZeroDivisionError", files)
    /\ UNCHANGED <<video, cap, current_frame, timestamps, frame_numbers,
                   frame_metadata, vision_log, audio_data, audio_log, mm,
                   session, assistant, backend, query>>

\* extract_frames, lines 233-236 and 252-253: the loop ends (capture not
\* opened, or read() returned ret = False), the capture is released
ExtractFramesReturn ==
    /\ pc = "extract"
    /\ ~ReadOk
    /\ cap' = "released"
    /\ frame_metadata' = <<>>
    /\ vision_log' = <<>>
    /\ pc' = "analyze"
    /\ UNCHANGED <<video, current_frame, timestamps, frame_numbers,
                   audio_data, audio_log, files, mm, session, assistant,
                   run_error, backend, query>>

(***************************************************************************)
(* main, lines 981-989: one iteration of the analysis loop                 *)
(***************************************************************************)
AnalyzeFrame ==
    /\ pc = "analyze"
    /\ Len(frame_metadata) < Len(frame_numbers)
    /\ \E outcome \in VisionOutcomes :
          /\ frame_metadata' = Append(frame_metadata,
                 analyze_frame(frame_numbers[Len(frame_metadata) + 1], outcome))
          /\ vision_log' = Append(vision_log, outcome)
    /\ UNCHANGED <<pc, video, cap, current_frame, timestamps, frame_numbers,
                   audio_data, audio_log, files, mm, session, assistant,
                   run_error, backend, query>>

(***************************************************************************)
(* main, line 993: extract_audio_with_translations                         *)
(***************************************************************************)
\* The audio stage without its try / except: the failure reaches main's except
ExtractAudioFails_propagates ==
    /\ pc = "analyze"
    /\ Len(frame_metadata) = Len(frame_numbers)
    /\ \E f \in AudioFailures, partial \in BOOLEAN :
          /\ audio_data' = audio_data
          /\ audio_log' = [outcome |-> f]
          /\ MainExcept(f, [files EXCEPT
                 !.clip = (f # "clip"),
                 !.audio_tmp = CASE f = "transcribe" -> TRUE
                                 [] f = "write" -> partial
                                 [] OTHER -> FALSE])
    /\ UNCHANGED <<video, cap, current_frame, timestamps, frame_numbers,
                   frame_metadata, vision_log, mm, session, assistant,
                   backend, query>>

\* The stage fails at failure point f: the except clause returns the marker
ExtractAudioFails ==
    /\ pc = "analyze"
    /\ Len(frame_metadata) = Len(frame_numbers)
    /\ \E f \in AudioFailures, partial \in BOOLEAN :
          /\ audio_data' = AudioError(f)
          /\ audio_log' = [outcome |-> f]
          /\ files' = [files EXCEPT
                 !.clip = (f # "clip"),
                 !.audio_tmp = CASE f = "transcribe" -> TRUE
                                 [] f = "write" -> partial
                                 [] OTHER -> FALSE]
    /\ pc' = "aggregate"
    /\ UNCHANGED <<video, cap, current_frame, timestamps, frame_numbers,
                   frame_metadata, vision_log, mm, session, assistant,
                   run_error, backend, query>>

\* Sets of translation calls that may raise
TransFailSets(n, source_language) ==
    {F \in SUBSET ((LangCodes \ {source_language}) \X (1..n)) :
        Cardinality(F) <= MaxTransFail}

\* lines 313-353: the stage returns the subtitles of the transcript segments,
\* the translation calls in failT having raised
ExtractAudioReturns(segments, source_language, failT) ==
    /\ audio_data' = BuildSubtitles(segments, source_language, failT)
    /\ audio_log' = [outcome |-> "ok",
                     segments |-> segments,
                     source_language |-> source_language,
                     failT |-> failT]
    /\ files' = [files EXCEPT !.clip = TRUE, !.audio_tmp = FALSE]
    /\ pc' = "aggregate"
    /\ UNCHANGED <<video, cap, current_frame, timestamps, frame_numbers,
                   frame_metadata, vision_log, mm, session, assistant,
                   run_error, backend, query>>

\* The stage succeeds: transcript of n segments, detected language, and the
\* translation calls in failT raise
ExtractAudioOk ==
    /\ pc = "analyze"
    /\ Len(frame_metadata) = Len(frame_numbers)
    /\ \E n \in 0..MaxSegs, answer \in DetectAnswers, raised \in BOOLEAN :
          \E failT \in TransFailSets(n, detect_language(answer, raised)) :
             ExtractAudioReturns(SegmentsOf(n),
                                 detect_language(answer, raised), failT)

\* The stage succeeds with any pattern of failed translation calls
ExtractAudioAnyPattern ==
    /\ pc = "analyze"
    /\ Len(frame_metadata) = Len(frame_numbers)
    /\ \E n \in 0..MaxPatternSegs, answer \in DetectAnswers, raised \in BOOLEAN :
          \E failT \in SUBSET ((LangCodes \ {detect_language(answer, raised)})
                                  \X (1..n)) :
             ExtractAudioReturns(SegmentsOf(n),
                                 detect_language(answer, raised), failT)

(***************************************************************************)
(* main, lines 997-1006: create_metadata_df and the session store          *)
(***************************************************************************)
create_metadata_df(frame_meta, stamps, audio, vmeta, numbers) ==
    [metadata_df |-> MetadataDf(frame_meta, stamps, numbers),
     video_metadata |-> vmeta,
     structured_data |->
         StructuredData(MetadataDf(frame_meta, stamps, numbers), audio, vmeta)]

\* CreateMetadata that does not wait for the audio stage
CreateMetadata_before_audio ==
    /\ pc = "analyze"
    /\ mm' = create_metadata_df(frame_metadata, timestamps, audio_data,
                                VideoMetadataOf(video), frame_numbers)
    /\ session' = [session EXCEPT !.metadata_manager = mm']
    /\ pc' = "assistant"
    /\ UNCHANGED <<video, cap, current_frame, timestamps, frame_numbers,
                   frame_metadata, vision_log, audio_data, audio_log, files,
                   assistant, run_error, backend, query>>

CreateMetadata ==
    /\ pc = "aggregate"
    /\ mm' = create_metadata_df(frame_metadata, timestamps, audio_data,
                                VideoMetadataOf(video), frame_numbers)
    /\ session' = [session EXCEPT !.metadata_manager = mm']
    /\ pc' = "assistant"
    /\ UNCHANGED <<video, cap, current_frame, timestamps, frame_numbers,
                   frame_metadata, vision_log, audio_data, audio_log, files,
                   assistant, run_error, backend, query>>

(***************************************************************************)
(* main, lines 1009-1024: create_assistant_with_results                    *)
(***************************************************************************)
\* The temp file cannot be written: tmp_file_path is never bound, and the
\* finally clause raises UnboundLocalError into main's except
CreateAssistantTmpFails ==
    /\ pc = "assistant"
    /\ \E created \in BOOLEAN :
          MainExcept("UnboundLocalError", [files EXCEPT !.json_tmp = created])
    /\ UNCHANGED <<video, cap, current_frame, timestamps, frame_numbers,
                   frame_metadata, vision_log, audio_data, audio_log, mm,
                   session, assistant, backend, query>>

\* files.create raises: returns None
CreateAssistantUploadFails ==
    /\ pc = "assistant"
    /\ files' = [files EXCEPT !.json_tmp = FALSE, !.video_tmp = FALSE]
    /\ pc' = "done"
    /\ UNCHANGED <<video, cap, current_frame, timestamps, frame_numbers,
                   frame_metadata, vision_log, audio_data, audio_log, mm,
                   session, assistant, run_error, backend, query>>

\* the file is uploaded, assistants.create raises: returns None
CreateAssistantCreateFails ==
    /\ pc = "assistant"
    /\ backend' = [backend EXCEPT !.files = 1]
    /\ files' = [files EXCEPT !.json_tmp = FALSE, !.video_tmp = FALSE]
    /\ pc' = "done"
    /\ UNCHANGED <<video, cap, current_frame, timestamps, frame_numbers,
                   frame_metadata, vision_log, audio_data, audio_log, mm,
                   session, assistant, run_error, query>>

\* the file is uploaded and the assistant created: returns its id.
\* assistants.create is given a name, instructions and a model, and no file,
\* so the assistant the backend returns has no file attached
CreateAssistantOk ==
    /\ pc = "assistant"
    /\ backend' = [backend EXCEPT !.files = 1]
    /\ assistant' = [id |-> "asst_1", file_ids |-> {}]
    /\ session' = [session EXCEPT !.current_assistant_id = [value |-> "asst_1"]]
    /\ files' = [files EXCEPT !.json_tmp = FALSE, !.video_tmp = FALSE]
    /\ pc' = "done"
    /\ UNCHANGED <<video, cap, current_frame, timestamps, frame_numbers,
                   frame_metadata, vision_log, audio_data, audio_log, mm,
                   run_error, query>>

(***************************************************************************)
(* VideoProcessor.query_assistant and MetadataManager.query_metadata.      *)
(* Queries are issued between pipeline runs (the script is single-threaded)*)
(***************************************************************************)
NoAssistantMsg == "No assistant available. Please process a video first."
NoMetadataMsg == "No metadata available. Please process a video first."
QueryErrorMsg == "Error querying assistant: <exception>"
NoResponseMsg == "No response received"
AssistantAnswer == "<assistant message text>"
MetadataAnswer == "Answer: <answer> Relevant Timestamps: <list> Confidence: <c>"
MetadataErrorMsg == "Error querying metadata: <exception>"

\* f"Error: Run {run_status.status}"
RunErrorMsg(status) ==
    CASE status = "failed" -> "Error: Run failed"
      [] status = "cancelled" -> "Error: Run cancelled"
      [] status = "expired" -> "Error: Run expired"

\* run statuses the backend may report
NonTerminalStatuses == {"queued", "in_progress"}
FailedStatuses == {"failed", "cancelled", "expired"}
RunStatuses == NonTerminalStatuses \cup FailedStatuses \cup {"completed"}

Return(call, value) ==
    [pc |-> "returned", call |-> call, result |-> [value |-> value],
     calls |-> query.calls, failure |-> "none", exports |-> query.exports]

\* the points of query_assistant at which the backend may fail: an exception
\* in one of the five backend calls, or a run that ends in a failed status
BackendCalls == {"threads.create", "messages.create", "runs.create",
                 "runs.retrieve", "messages.list"}

\* ReturnFailure that lets the failure leave query_assistant as an exception
ReturnFailure_raises(failure, value) ==
    [pc |-> "raised", call |-> "query_assistant", result |-> None,
     calls |-> query.calls, failure |-> failure, exports |-> query.exports]

\* query_assistant returns value because the backend failed with failure
ReturnFailure(failure, value) ==
    [Return("query_assistant", value) EXCEPT !.failure = failure]

CanQuery ==
    /\ pc \in {"idle", "done"}
    /\ query.pc = "idle"
    /\ query.calls < MaxQueries

\* query_assistant without the "if not self.assistant" guard
QueryAssistantNoAssistant_unguarded ==
    /\ CanQuery
    /\ assistant = None
    /\ query' = [pc |-> "message", call |-> "query_assistant",
                 result |-> None, calls |-> query.calls + 1,
                 failure |-> "none", exports |-> query.exports]
    /\ backend' = [backend EXCEPT !.threads = @ + 1]
    /\ UNCHANGED <<pipelineVars, assistant>>

\* query_assistant, lines 408-409
QueryAssistantNoAssistant ==
    /\ CanQuery
    /\ assistant = None
    /\ query' = [Return("query_assistant", NoAssistantMsg) EXCEPT
                    !.calls = query.calls + 1]
    /\ UNCHANGED <<pipelineVars, assistant, backend>>

\* query_assistant, line 413: threads.create
QueryAssistantThread ==
    /\ CanQuery
    /\ assistant # None
    /\ \E raised \in BOOLEAN :
          IF raised
          THEN /\ query' = [ReturnFailure("threads.create", QueryErrorMsg)
                               EXCEPT !.calls = query.calls + 1]
               /\ UNCHANGED backend
          ELSE /\ query' = [pc |-> "message", call |-> "query_assistant",
                            result |-> None, calls |-> query.calls + 1,
                            failure |-> "none", exports |-> query.exports]
               /\ backend' = [backend EXCEPT !.threads = @ + 1]
    /\ UNCHANGED <<pipelineVars, assistant>>

\* query_assistant, lines 416-420: messages.create
QueryAssistantMessage ==
    /\ query.pc = "message"
    /\ \E raised \in BOOLEAN :
          IF raised
          THEN /\ query' = ReturnFailure("messages.create", QueryErrorMsg)
               /\ UNCHANGED backend
          ELSE /\ query' = [query EXCEPT !.pc = "run"]
               /\ backend' = [backend EXCEPT !.messages = @ + 1]
    /\ UNCHANGED <<pipelineVars, assistant>>

\* query_assistant, lines 423-426: runs.create
QueryAssistantRun ==
    /\ query.pc = "run"
    /\ \E raised \in BOOLEAN :
          IF raised
          THEN /\ query' = ReturnFailure("runs.create", QueryErrorMsg)
               /\ UNCHANGED backend
          ELSE /\ query' = [query EXCEPT !.pc = "poll"]
               /\ backend' = [backend EXCEPT !.runs = @ + 1]
    /\ UNCHANGED <<pipelineVars, assistant>>

\* query_assistant, lines 429-437: one status check of the "while True" loop
QueryAssistantPoll ==
    /\ query.pc = "poll"
    /\ \/ \E status \in RunStatuses :
             query' =
                CASE status = "completed" -> [query EXCEPT !.pc = "list"]
                  [] status \in FailedStatuses ->
                        ReturnFailure(status, RunErrorMsg(status))
                  [] OTHER -> [query EXCEPT !.pc = "sleep"]
       \/ query' = ReturnFailure("runs.retrieve", QueryErrorMsg)
    /\ UNCHANGED <<pipelineVars, assistant, backend>>

\* query_assistant, line 438: time.sleep(1), then the next iteration
QueryAssistantSleep ==
    /\ query.pc = "sleep"
    /\ query' = [query EXCEPT !.pc = "poll"]
    /\ UNCHANGED <<pipelineVars, assistant, backend>>

\* query_assistant, lines 441-453: messages.list and the answer
QueryAssistantList ==
    /\ query.pc = "list"
    /\ \/ \E value \in {AssistantAnswer, NoResponseMsg} :
             query' = Return("query_assistant", value)
       \/ query' = ReturnFailure("messages.list", QueryErrorMsg)
    /\ UNCHANGED <<pipelineVars, assistant, backend>>

\* query_metadata, lines 551-590
query_metadata(manager, raised) ==
    IF manager.metadata_df = None THEN NoMetadataMsg
    ELSE IF raised THEN MetadataErrorMsg
    ELSE MetadataAnswer

\* QueryMetadata that drops the DataFrame once it has been sent as context
QueryMetadata_drops_df ==
    /\ CanQuery
    /\ \E raised \in BOOLEAN :
          query' = [Return("query_metadata", query_metadata(mm, raised)) EXCEPT
                       !.calls = query.calls + 1]
    /\ mm' = [mm EXCEPT !.metadata_df = None]
    /\ UNCHANGED <<pc, video, cap, current_frame, timestamps, frame_numbers,
                   frame_metadata, vision_log, audio_data, audio_log, files,
                   session, run_error, assistant, backend>>

QueryMetadata ==
    /\ CanQuery
    /\ \E raised \in BOOLEAN :
          query' = [Return("query_metadata", query_metadata(mm, raised)) EXCEPT
                       !.calls = query.calls + 1]
    /\ UNCHANGED <<pipelineVars, assistant, backend>>

\* the caller takes the returned string
QueryDone ==
    /\ query.pc = "returned"
    /\ query' = [query EXCEPT !.pc = "idle", !.call = "none", !.result = None,
                               !.failure = "none"]
    /\ UNCHANGED <<pipelineVars, assistant, backend>>

\* ExportMetadata that counts the export in the version field of the record
ExportMetadata_bumps_version ==
    /\ CanQuery
    /\ \E format_type \in FormatTypes :
          LET res == export_metadata(mm, format_type) IN
          query' = [pc |-> IF "value" \in DOMAIN res THEN "returned" ELSE "raised",
                    call |-> "export_metadata",
                    result |-> res,
                    calls |-> query.calls + 1,
                    failure |-> "none",
                    exports |-> Append(query.exports,
                                  [format_type |-> format_type, result |-> res])]
    /\ mm' = IF mm.structured_data = None THEN mm
             ELSE [mm EXCEPT !.structured_data.version = @ + 1]
    /\ UNCHANGED <<pc, video, cap, current_frame, timestamps, frame_numbers,
                   frame_metadata, vision_log, audio_data, audio_log, files,
                   session, run_error, assistant, backend>>

\* a call of export_metadata on the manager: it returns or raises, and the
\* call is appended to the history
ExportMetadata ==
    /\ CanQuery
    /\ \E format_type \in FormatTypes :
          LET res == export_metadata(mm, format_type) IN
          query' = [pc |-> IF "value" \in DOMAIN res THEN "returned" ELSE "raised",
                    call |-> "export_metadata",
                    result |-> res,
                    calls |-> query.calls + 1,
                    failure |-> "none",
                    exports |-> Append(query.exports,
                                  [format_type |-> format_type, result |-> res])]
    /\ UNCHANGED <<pipelineVars, assistant, backend>>

\* the caller takes the bytes, or handles the exception
ExportDone ==
    /\ query.call = "export_metadata"
    /\ query.pc \in {"returned", "raised"}
    /\ query' = [query EXCEPT !.pc = "idle", !.call = "none", !.result = None]
    /\ UNCHANGED <<pipelineVars, assistant, backend>>

\* One pipeline run: main's "Process Video" handler
Next ==
    \/ \E v \in Videos : ProcessVideo(v)
    \/ ReadFrame
    \/ ReadFrameRaises
    \/ ExtractFramesReturn
    \/ AnalyzeFrame
    \/ ExtractAudioFails
    \/ ExtractAudioOk
    \/ CreateMetadata
    \/ CreateAssistantTmpFails
    \/ CreateAssistantUploadFails
    \/ CreateAssistantCreateFails
    \/ CreateAssistantOk

Spec == Init /\ [][Next]_vars

(***************************************************************************)
(* The query layer is exercised from the states a session is in between    *)
(* pipeline runs: the fresh session, and the end of a run over SampleVideo *)
(* (two frames kept, the second vision call failed) whose audio stage and  *)
(* assistant creation (the upload) each succeeded or failed.  Each         *)
(* AfterRun state is an end state of a behaviour of Spec.                  *)
(***************************************************************************)
SampleVideo ==
    [opened |-> TRUE, fps100 |-> 100, total_frames |-> 3, readable |-> 3]

\* the processor, the manager and the session at the end of that run
AfterRunPipeline(audioOk, assistantOk) ==
    /\ pc = "done"
    /\ video = SampleVideo
    /\ cap = "released"
    /\ current_frame = 3
    /\ timestamps = <<Timestamp(0, 100), Timestamp(2, 100)>>
    /\ frame_numbers = <<0, 2>>
    /\ frame_metadata = <<analyze_frame(0, "ok"), analyze_frame(2, "error")>>
    /\ vision_log = <<"ok", "error">>
    /\ audio_data = IF audioOk
                    THEN BuildSubtitles(SegmentsOf(1), "en-US", {})
                    ELSE AudioError("transcribe")
    /\ audio_log = IF audioOk
                   THEN [outcome |-> "ok", segments |-> SegmentsOf(1),
                         source_language |-> "en-US", failT |-> {}]
                   ELSE [outcome |-> "transcribe"]
    /\ files = [clip |-> TRUE, audio_tmp |-> ~audioOk, video_tmp |-> FALSE,
                json_tmp |-> FALSE]
    /\ mm = create_metadata_df(frame_metadata, timestamps, audio_data,
                               VideoMetadataOf(video), frame_numbers)
    /\ session = [video_processed |-> FALSE, metadata_manager |-> mm,
                  current_assistant_id |->
                      IF assistantOk THEN [value |-> "asst_1"] ELSE None]
    /\ assistant = IF assistantOk THEN [id |-> "asst_1", file_ids |-> {}]
                   ELSE None
    /\ run_error = NoError

AfterRun(audioOk, assistantOk) ==
    /\ AfterRunPipeline(audioOk, assistantOk)
    /\ backend = [files |-> IF assistantOk THEN 1 ELSE 0,
                  threads |-> 0, messages |-> 0, runs |-> 0]
    /\ query = [pc |-> "idle", call |-> "none", result |-> None, calls |-> 0,
                failure |-> "none", exports |-> <<>>]

\* The run over SampleVideo when its last frame has been analyzed
AfterAnalysis ==
    /\ pc = "analyze"
    /\ video = SampleVideo
    /\ cap = "released"
    /\ current_frame = 3
    /\ timestamps = <<Timestamp(0, 100), Timestamp(2, 100)>>
    /\ frame_numbers = <<0, 2>>
    /\ frame_metadata = <<analyze_frame(0, "ok"), analyze_frame(2, "error")>>
    /\ vision_log = <<"ok", "error">>
    /\ audio_data = None
    /\ audio_log = None
    /\ files = [clip |-> FALSE, audio_tmp |-> FALSE, video_tmp |-> TRUE,
                json_tmp |-> FALSE]
    /\ mm = [metadata_df |-> None, video_metadata |-> None,
             structured_data |-> None]
    /\ session = [video_processed |-> FALSE, metadata_manager |-> None,
                  current_assistant_id |-> None]
    /\ assistant = None
    /\ run_error = NoError
    /\ backend = [files |-> 0, threads |-> 0, messages |-> 0, runs |-> 0]
    /\ query = [pc |-> "idle", call |-> "none", result |-> None, calls |-> 0,
                failure |-> "none", exports |-> <<>>]

\* The audio stage and the aggregation of a run, over every pattern of
\* translation failures
AudioNext ==
    \/ ExtractAudioAnyPattern
    \/ CreateMetadata

AudioSpec == AfterAnalysis /\ [][AudioNext]_vars

\* Streams whose reported length spans hours, minutes, seconds and parts of
\* a second, at 2 fps and at 24 fps (fs = <<fps, frames past the second>>);
\* their first read() returns ret = False
DurationVideos ==
    {[opened |-> TRUE, fps100 |-> 100 * fs[1],
      total_frames |-> (h * 3600 + m * 60 + sec) * fs[1] + fs[2],
      readable |-> 0] :
        fs \in {<<2, 0>>, <<2, 1>>, <<24, 0>>, <<24, 1>>, <<24, 12>>, <<24, 23>>},
        h \in 0..MaxHours, m \in {0, 2, 59}, sec \in {0, 5, 59}}

\* The run over v when sampling kept no frame and the audio stage returned
\* the subtitles of an empty transcript
AfterAudio(v) ==
    /\ pc = "aggregate"
    /\ video = v
    /\ cap = "released"
    /\ current_frame = 0
    /\ timestamps = <<>>
    /\ frame_numbers = <<>>
    /\ frame_metadata = <<>>
    /\ vision_log = <<>>
    /\ audio_data = BuildSubtitles(SegmentsOf(0), "en-US", {})
    /\ audio_log = [outcome |-> "ok", segments |-> SegmentsOf(0),
                    source_language |-> "en-US", failT |-> {}]
    /\ files = [clip |-> TRUE, audio_tmp |-> FALSE, video_tmp |-> TRUE,
                json_tmp |-> FALSE]
    /\ mm = [metadata_df |-> None, video_metadata |-> None,
             structured_data |-> None]
    /\ session = [video_processed |-> FALSE, metadata_manager |-> None,
                  current_assistant_id |-> None]
    /\ assistant = None
    /\ run_error = NoError
    /\ backend = [files |-> 0, threads |-> 0, messages |-> 0, runs |-> 0]
    /\ query = [pc |-> "idle", call |-> "none", result |-> None, calls |-> 0,
                failure |-> "none", exports |-> <<>>]

\* The aggregation of the runs over DurationVideos
DurationSpec == (\E v \in DurationVideos : AfterAudio(v)) /\ [][CreateMetadata]_vars

SessionInit ==
    \/ Init
    \/ \E audioOk \in BOOLEAN, assistantOk \in BOOLEAN :
          AfterRun(audioOk, assistantOk)

\* Exports of the record between pipeline runs
ExportNext ==
    \/ ExportMetadata
    \/ ExportDone

ExportSpec == SessionInit /\ [][ExportNext]_vars

\* A call to query_assistant keeps executing its statements
QueryStep ==
    \/ QueryAssistantMessage
    \/ QueryAssistantRun
    \/ QueryAssistantPoll
    \/ QueryAssistantSleep
    \/ QueryAssistantList

QueryNext ==
    \/ QueryAssistantNoAssistant
    \/ QueryAssistantThread
    \/ QueryAssistantMessage
    \/ QueryAssistantRun
    \/ QueryAssistantPoll
    \/ QueryAssistantSleep
    \/ QueryAssistantList
    \/ QueryMetadata
    \/ QueryDone

QuerySpec == SessionInit /\ [][QueryNext]_vars

FairQuerySpec == QuerySpec /\ WF_vars(QueryStep)

(***************************************************************************)
(* Concurrent calls of query_assistant on one VideoProcessor.  In          *)
(* ConcurrentSpec the variable query holds one call record per caller      *)
(* (the locals thread and run of that call, its position and its result),  *)
(* and backend holds what the service stores: the messages of every thread *)
(* and, for every run, its thread, its assistant and its status.  Caller c *)
(* asks question c; texts are records [text, answers] so that an answer    *)
(* tells which question it answers.                                        *)
(***************************************************************************)
Callers == 1..MaxCallers

Text(string, question) == [text |-> string, answers |-> question]

CallerReturn(c, string, question) ==
    [query EXCEPT ![c].pc = "returned",
                  ![c].result = [value |-> Text(string, question)]]

ConcurrentInit ==
    /\ AfterRunPipeline(TRUE, TRUE)
    /\ backend = [files |-> 1, threads |-> 0, messages |-> <<>>, runs |-> <<>>]
    /\ query = [c \in Callers |->
                   [pc |-> "idle", thread |-> 0, run |-> 0, result |-> None]]

\* CallerThread that keeps the thread on the processor, shared by all calls
CallerThread_shared(c) ==
    /\ query[c].pc = "idle"
    /\ assistant # None
    /\ \E raised \in BOOLEAN :
          IF raised
          THEN /\ query' = CallerReturn(c, QueryErrorMsg, 0)
               /\ UNCHANGED backend
          ELSE /\ query' = [x \in Callers |->
                               IF x = c
                               THEN [query[x] EXCEPT !.pc = "message",
                                        !.thread = backend.threads + 1]
                               ELSE [query[x] EXCEPT
                                        !.thread = backend.threads + 1]]
               /\ backend' = [backend EXCEPT !.threads = @ + 1,
                                             !.messages = Append(@, <<>>)]
    /\ UNCHANGED <<pipelineVars, assistant>>

\* lines 408-413: thread = threads.create()
CallerThread(c) ==
    /\ query[c].pc = "idle"
    /\ assistant # None
    /\ \E raised \in BOOLEAN :
          IF raised
          THEN /\ query' = CallerReturn(c, QueryErrorMsg, 0)
               /\ UNCHANGED backend
          ELSE /\ query' = [query EXCEPT ![c].pc = "message",
                                         ![c].thread = backend.threads + 1]
               /\ backend' = [backend EXCEPT !.threads = @ + 1,
                                             !.messages = Append(@, <<>>)]
    /\ UNCHANGED <<pipelineVars, assistant>>

\* lines 416-420: messages.create(thread_id=thread.id, role="user", ...)
CallerMessage(c) ==
    /\ query[c].pc = "message"
    /\ \E raised \in BOOLEAN :
          IF raised
          THEN /\ query' = CallerReturn(c, QueryErrorMsg, 0)
               /\ UNCHANGED backend
          ELSE /\ query' = [query EXCEPT ![c].pc = "run"]
               /\ backend' = [backend EXCEPT !.messages[query[c].thread] =
                                 Append(@, [role |-> "user", content |-> c])]
    /\ UNCHANGED <<pipelineVars, assistant>>

\* lines 423-426: run = runs.create(thread_id=thread.id, assistant_id=...)
CallerRun(c) ==
    /\ query[c].pc = "run"
    /\ \E raised \in BOOLEAN :
          IF raised
          THEN /\ query' = CallerReturn(c, QueryErrorMsg, 0)
               /\ UNCHANGED backend
          ELSE /\ query' = [query EXCEPT ![c].pc = "poll",
                                         ![c].run = Len(backend.runs) + 1]
               /\ backend' = [backend EXCEPT !.runs =
                                 Append(@, [thread_id |-> query[c].thread,
                                            assistant_id |-> assistant.id,
                                            status |-> "queued"])]
    /\ UNCHANGED <<pipelineVars, assistant>>

\* the last user message of a thread
LastQuestion(messages) ==
    LET asked == SelectSeq(messages, LAMBDA msg : msg.role = "user")
    IN  asked[Len(asked)].content

\* The service works on a queued run: the run ends in a failed status, or
\* completes, with or without an assistant message that answers the last
\* user message of the run's thread
BackendRunStep(r) ==
    /\ r \in 1..Len(backend.runs)
    /\ backend.runs[r].status = "queued"
    /\ \E status \in FailedStatuses \cup {"completed"}, answered \in BOOLEAN :
          backend' = [backend EXCEPT
              !.runs[r].status = status,
              !.messages[backend.runs[r].thread_id] =
                  IF status = "completed" /\ answered
                  THEN Append(@, [role |-> "assistant",
                                  content |-> Text(AssistantAnswer,
                                                   LastQuestion(@))])
                  ELSE @]
    /\ UNCHANGED <<pipelineVars, assistant, query>>

\* lines 429-438: runs.retrieve(thread_id=thread.id, run_id=run.id); on a
\* status that is not terminal the call sleeps and retrieves again
CallerPoll(c) ==
    /\ query[c].pc = "poll"
    /\ \/ /\ backend.runs[query[c].run].status = "completed"
          /\ query' = [query EXCEPT ![c].pc = "list"]
       \/ /\ backend.runs[query[c].run].status \in FailedStatuses
          /\ query' = CallerReturn(c,
                          RunErrorMsg(backend.runs[query[c].run].status), 0)
       \/ query' = CallerReturn(c, QueryErrorMsg, 0)
    /\ UNCHANGED <<pipelineVars, assistant, backend>>

\* lines 441-453: messages.list(thread_id=thread.id), newest first; the first
\* assistant message is the answer
CallerList(c) ==
    /\ query[c].pc = "list"
    /\ LET answers == SelectSeq(backend.messages[query[c].thread],
                                LAMBDA msg : msg.role = "assistant")
       IN  \/ /\ answers # <<>>
              /\ query' = [query EXCEPT ![c].pc = "returned",
                              ![c].result =
                                 [value |-> answers[Len(answers)].content]]
           \/ /\ answers = <<>>
              /\ query' = CallerReturn(c, NoResponseMsg, 0)
           \/ query' = CallerReturn(c, QueryErrorMsg, 0)
    /\ UNCHANGED <<pipelineVars, assistant, backend>>

ConcurrentNext ==
    \/ \E c \in Callers :
          \/ CallerThread(c)
          \/ CallerMessage(c)
          \/ CallerRun(c)
          \/ CallerPoll(c)
          \/ CallerList(c)
    \/ \E r \in 1..MaxCallers : BackendRunStep(r)

ConcurrentSpec == ConcurrentInit /\ [][ConcurrentNext]_vars

(***************************************************************************)
(* Read accessors of the record                                            *)
(***************************************************************************)
RecordBuilt == mm.structured_data # None

\* get_event_data / source.tracks.caption.eventData
Events == mm.structured_data.source.tracks.caption.eventData

Subtitles == mm.structured_data.source.subtitles

\* MetadataManager.get_subtitle_languages: the keys of source.subtitles
get_subtitle_languages(manager) ==
    IF manager.structured_data # None
    THEN DOMAIN manager.structured_data.source.subtitles
    ELSE {}

\* MetadataManager.get_event_data: [] on KeyError / TypeError
get_event_data(manager) ==
    IF manager.structured_data # None
    THEN manager.structured_data.source.tracks.caption.eventData
    ELSE <<>>

\* MetadataManager.get_structured_output
get_structured_output(manager) == manager.structured_data

\* MetadataManager.get_subtitles_for_language: subtitles.get(code, [])
get_subtitles_for_language(manager, language_code) ==
    IF manager.structured_data # None
       /\ language_code \in DOMAIN manager.structured_data.source.subtitles
    THEN manager.structured_data.source.subtitles[language_code]
    ELSE <<>>

\* a call of one of the four read accessors
ReadRecord ==
    /\ CanQuery
    /\ \/ query' = [Return("get_event_data", get_event_data(mm)) EXCEPT
                        !.calls = query.calls + 1]
       \/ query' = [Return("get_structured_output", get_structured_output(mm))
                        EXCEPT !.calls = query.calls + 1]
       \/ query' = [Return("get_subtitle_languages", get_subtitle_languages(mm))
                        EXCEPT !.calls = query.calls + 1]
       \/ \E language_code \in {"en-US", "ta-IN", "fr-FR"} :
             query' = [Return("get_subtitles_for_language",
                              get_subtitles_for_language(mm, language_code))
                          EXCEPT !.calls = query.calls + 1]
    /\ UNCHANGED <<pipelineVars, assistant, backend>>

\* The run over SampleVideo when its audio stage has returned
BeforeAggregation(audioOk) ==
    /\ pc = "aggregate"
    /\ video = SampleVideo
    /\ cap = "released"
    /\ current_frame = 3
    /\ timestamps = <<Timestamp(0, 100), Timestamp(2, 100)>>
    /\ frame_numbers = <<0, 2>>
    /\ frame_metadata = <<analyze_frame(0, "ok"), analyze_frame(2, "error")>>
    /\ vision_log = <<"ok", "error">>
    /\ audio_data = IF audioOk
                    THEN BuildSubtitles(SegmentsOf(1), "en-US", {})
                    ELSE AudioError("transcribe")
    /\ audio_log = IF audioOk
                   THEN [outcome |-> "ok", segments |-> SegmentsOf(1),
                         source_language |-> "en-US", failT |-> {}]
                   ELSE [outcome |-> "transcribe"]
    /\ files = [clip |-> TRUE, audio_tmp |-> ~audioOk, video_tmp |-> TRUE,
                json_tmp |-> FALSE]
    /\ mm = [metadata_df |-> None, video_metadata |-> None,
             structured_data |-> None]
    /\ session = [video_processed |-> FALSE, metadata_manager |-> None,
                  current_assistant_id |-> None]
    /\ assistant = None
    /\ run_error = NoError
    /\ backend = [files |-> 0, threads |-> 0, messages |-> 0, runs |-> 0]
    /\ query = [pc |-> "idle", call |-> "none", result |-> None, calls |-> 0,
                failure |-> "none", exports |-> <<>>]

\* The record from its construction on: context creation, then queries,
\* exports and reads in any order
RecordNext ==
    \/ CreateMetadata
    \/ CreateAssistantTmpFails
    \/ CreateAssistantUploadFails
    \/ CreateAssistantCreateFails
    \/ CreateAssistantOk
    \/ QueryAssistantNoAssistant
    \/ QueryAssistantThread
    \/ QueryAssistantMessage
    \/ QueryAssistantRun
    \/ QueryAssistantPoll
    \/ QueryAssistantSleep
    \/ QueryAssistantList
    \/ QueryMetadata
    \/ QueryDone
    \/ ExportMetadata
    \/ ExportDone
    \/ ReadRecord

RecordSpec ==
    (\E audioOk \in BOOLEAN : BeforeAggregation(audioOk)) /\ [][RecordNext]_vars

(***************************************************************************)
(* main, lines 911-961: a rerun of the script in the same session.  The    *)
(* session state is kept; VideoProcessor and MetadataManager are           *)
(* constructed anew; the uploaded file, if any, is written to a new temp   *)
(* file.  The queries that follow are calls on the new processor.          *)
(***************************************************************************)
Rerun ==
    /\ pc \in {"idle", "done"}
    /\ query.pc = "idle"
    /\ pc' = "idle"
    \* processor = VideoProcessor(api_key)
    /\ assistant' = None
    \* metadata_manager = MetadataManager(api_key)
    /\ mm' = [metadata_df |-> None, video_metadata |-> None,
              structured_data |-> None]
    \* tfile = tempfile.NamedTemporaryFile(delete=False)
    /\ files' = [files EXCEPT !.video_tmp = (video # NoVideo)]
    /\ UNCHANGED <<video, cap, current_frame, timestamps, frame_numbers,
                   frame_metadata, vision_log, audio_data, audio_log,
                   session, run_error, backend, query>>

RerunNext ==
    \/ Rerun
    \/ QueryNext

RerunSpec == SessionInit /\ [][RerunNext]_vars

(***************************************************************************)
(* Properties                                                              *)
(***************************************************************************)
AudioFailed == audio_log # None /\ audio_log.outcome # "ok"
AudioSucceeded == audio_log # None /\ audio_log.outcome = "ok"

\* C1: whatever subset of the vision calls fails, the record has one event
\* per sampled frame, in frame order; a failed frame carries the sentinel
\* analysis (scene_type "error", no objects) and every other frame carries
\* what the vision service returned for it.
C1_FailedFramesBecomeSentinels ==
    RecordBuilt =>
        /\ Len(vision_log) = Len(frame_numbers)
        /\ Len(Events) = Len(frame_numbers)
        /\ Len(mm.metadata_df.rows) = Len(frame_numbers)
        /\ \A i \in 1..Len(frame_numbers) :
              LET row == mm.metadata_df.rows[i] IN
              /\ row.frame_number = frame_numbers[i]
              /\ Events[i].inpoint = timestamps[i]
              /\ Events[i].eventID = row.frame_description
              /\ IF vision_log[i] = "ok"
                 THEN /\ row.frame_description =
                             VisionAnswer(frame_numbers[i]).description
                      /\ row.objects_detected =
                             VisionAnswer(frame_numbers[i]).objects_detected
                      /\ row.scene_type =
                             VisionAnswer(frame_numbers[i]).scene_type
                 ELSE /\ row.scene_type = "error"
                      /\ row.objects_detected = <<>>

\* a record of three frames, the vision call of the second of which failed
\* with the over-length error
C1_Witness ==
    /\ RecordBuilt
    /\ vision_log = <<"ok", "length", "ok">>
    /\ frame_numbers = <<0, 2, 4>>

\* C2: when the audio stage fails, the failure does not leave
\* extract_audio_with_translations; the record is still built, its subtitles
\* are the error marker (or empty), and it has one event per analyzed frame.
C2_AudioFailureKeepsVisualTrack ==
    AudioFailed =>
        /\ run_error \notin AudioFailures
        /\ pc \in {"aggregate", "assistant", "done"}
        /\ pc # "aggregate" =>
              /\ RecordBuilt
              /\ DOMAIN Subtitles \subseteq {"error"}
              /\ Len(Events) = Len(vision_log)
              /\ Len(Events) = Len(frame_numbers)

\* a record of three frames built after the transcription call failed
C2_Witness ==
    /\ RecordBuilt
    /\ AudioFailed
    /\ audio_log.outcome = "transcribe"
    /\ Len(Events) = 3

\* C3: after a successful transcription every track of a language other
\* than the detected source language has as many entries as the source
\* track and the same inpoint and outpoint at every position.
C3_TracksShareBoundaries ==
    (RecordBuilt /\ AudioSucceeded) =>
        LET src == audio_log.source_language IN
        /\ src \in DOMAIN Subtitles
        /\ Len(Subtitles[src]) = Len(audio_log.segments)
        /\ \A code \in DOMAIN Subtitles \ {src} :
              /\ Len(Subtitles[code]) = Len(Subtitles[src])
              /\ \A k \in 1..Len(Subtitles[src]) :
                    /\ Subtitles[code][k].inpoint = Subtitles[src][k].inpoint
                    /\ Subtitles[code][k].outpoint = Subtitles[src][k].outpoint

\* a record with a transcript segment one of whose translations failed
C3_Witness ==
    /\ RecordBuilt
    /\ AudioSucceeded
    /\ Len(audio_log.segments) >= 1
    /\ audio_log.failT # {}
    /\ Cardinality(DOMAIN Subtitles) >= 5

\* The detected source language of the run, if the audio stage got that far
DetectedSource == IF AudioSucceeded THEN {audio_log.source_language} ELSE {}

\* C4: the keys of source.subtitles, and the list get_subtitle_languages
\* returns, are among the supported language codes and the detected source
\* language, whether the audio stage succeeded or failed.
C4_SubtitleKeysAreLanguages ==
    RecordBuilt =>
        /\ DOMAIN Subtitles \subseteq LangCodes \cup DetectedSource
        /\ get_subtitle_languages(mm) \subseteq LangCodes \cup DetectedSource

\* C5: the events are sorted non-decreasing by inpoint, and each event has
\* inpoint = outpoint = the timestamp of the frame it was built from.
C5_EventsSortedByTimestamp ==
    RecordBuilt =>
        /\ Len(Events) = Len(frame_numbers)
        /\ \A i \in 1..Len(Events) :
              /\ Events[i].inpoint = Events[i].outpoint
              /\ Events[i].inpoint =
                    Timestamp(frame_numbers[i], EffectiveFps100(video.fps100))
              /\ Events[i].inpoint = timestamps[i]
        /\ \A i \in 1..(Len(Events) - 1) :
              RatLeq(Events[i].inpoint, Events[i + 1].inpoint)

\* a record of three events at strictly increasing times
C5_Witness ==
    /\ RecordBuilt
    /\ Len(Events) = 3
    /\ ~RatLeq(Events[2].inpoint, Events[1].inpoint)
    /\ ~RatLeq(Events[3].inpoint, Events[2].inpoint)

\* C6: with fps > 0 the k-th kept frame (k = 0, 1, ...) has index
\* k * frame_interval and timestamp k * frame_interval / fps, so consecutive
\* kept indices differ by frame_interval; no other frame is kept and no
\* multiple of frame_interval that was read is left out.
C6_KeptFramesAreMultiples ==
    (video.opened /\ video.fps100 > 0) =>
        LET fi == FrameInterval(video.fps100, SampleRate) IN
        /\ Len(timestamps) = Len(frame_numbers)
        /\ \A k \in 1..Len(frame_numbers) :
              /\ frame_numbers[k] = (k - 1) * fi
              /\ RatEq(timestamps[k], Rat((k - 1) * fi * 100, video.fps100))
        /\ \A k \in 1..(Len(frame_numbers) - 1) :
              frame_numbers[k + 1] - frame_numbers[k] = fi
        /\ fi > 0 =>
              Len(frame_numbers) = (current_frame + fi - 1) \div fi

\* sampling of a 1 fps stream (step 2) has finished with three frames kept
\* and frames skipped between them
C6_Witness ==
    /\ video.opened
    /\ video.fps100 = 100
    /\ pc = "analyze"
    /\ frame_numbers = <<0, 2, 4>>
    /\ current_frame = 5

\* C7: for a stream that reports fps <= 0, or an fps whose product with the
\* interval truncates to 0, extract_frames runs to completion without
\* raising, and with fps <= 0 every kept frame is stamped frame index / 30.
C7_DegenerateFpsCompletes ==
    (video.opened /\ (video.fps100 <= 0 \/ FrameInterval(video.fps100, SampleRate) = 0)) =>
        /\ run_error # "ZeroDivisionError"
        /\ pc = "extract" \/ cap = "released"
        /\ video.fps100 <= 0 =>
              \A k \in 1..Len(frame_numbers) :
                 RatEq(timestamps[k], Rat(frame_numbers[k], FallbackFps))

\* The video cannot be decoded: the capture does not open, or a read fails
\* before the reported end of the stream
DecodeFails ==
    /\ video # NoVideo
    /\ ~video.opened \/ video.readable < video.total_frames

\* C8: if the video cannot be decoded, the run ends with a fatal error and no
\* record is built from zero or partially sampled frames.
C8_DecodeFailureIsFatal ==
    DecodeFails =>
        /\ ~RecordBuilt
        /\ pc = "done" => run_error # NoError

\* C9: a call to query_assistant that has started polling returns, even if
\* the backend keeps reporting a status that is not terminal.
C9_PollingTerminates == (query.pc = "poll") ~> (query.pc = "returned")

\* A step that issues a query while its context does not exist
QueryWithoutContext ==
    /\ query'.calls = query.calls + 1
    /\ \/ query'.call = "query_assistant" /\ assistant = None
       \/ query'.call = "query_metadata" /\ mm.metadata_df = None

UsageErrors == {NoAssistantMsg, NoMetadataMsg}
NormalAnswers == {AssistantAnswer, MetadataAnswer}

\* C10: a query issued while no context exists returns at once with the
\* usage message of its call, which is not an answer; it raises nothing and
\* creates no backend thread, message or run.
C10_QueryWithoutContextIsUsageError ==
    [][QueryWithoutContext =>
          /\ query'.pc = "returned"
          /\ query'.result.value =
                (IF query'.call = "query_assistant"
                 THEN NoAssistantMsg ELSE NoMetadataMsg)
          /\ query'.result.value \in UsageErrors \ NormalAnswers
          /\ backend' = backend
          /\ run_error' = run_error
          /\ assistant' = assistant]_vars

\* query_assistant has returned the usage message after a run that created
\* no assistant
C10_Witness ==
    /\ pc = "done"
    /\ RecordBuilt
    /\ assistant = None
    /\ query.pc = "returned"
    /\ query.call = "query_assistant"
    /\ query.result = [value |-> NoAssistantMsg]
    /\ backend.threads = 0

\* every way the backend can fail a query
BackendFailures == BackendCalls \cup FailedStatuses

\* C11: whenever the backend fails during a query (a run that ends failed,
\* cancelled or expired, or an exception in one of the five backend calls),
\* query_assistant returns a string that names the failure and is none of
\* the normal answers; no exception leaves the call.
C11_BackendFailureIsReturned ==
    (query.failure # "none") =>
        /\ query.failure \in BackendFailures
        /\ query.call = "query_assistant"
        /\ query.pc = "returned"
        /\ query.result # None
        /\ query.result.value =
              (IF query.failure \in FailedStatuses
               THEN RunErrorMsg(query.failure)
               ELSE QueryErrorMsg)
        /\ query.result.value \notin
              {AssistantAnswer, NoResponseMsg, NoAssistantMsg}
        /\ \A other \in FailedStatuses \ {query.failure} :
              query.result.value # RunErrorMsg(other)
        /\ run_error = NoError

\* query_assistant has returned after its run was reported expired
C11_Witness ==
    /\ query.failure = "expired"
    /\ query.pc = "returned"
    /\ query.result = [value |-> "Error: Run expired"]
    /\ backend.runs >= 1

\* C12: when a pipeline run has ended, on whatever path, the extracted audio
\* temp file is deleted, the capture and the clip handle are released, the
\* uploaded-video temp file and the JSON temp file are deleted, and the
\* cleanup of the JSON temp file has not raised.
C12_ResourcesReleasedOnExit ==
    (pc = "done") =>
        /\ ~files.audio_tmp
        /\ ~files.clip
        /\ cap # "open"
        /\ ~files.video_tmp
        /\ ~files.json_tmp
        /\ run_error # "UnboundLocalError"

\* the text translate_text returns for segment k in language code when the
\* service answers
Translated(code, k) == [lang |-> supported_languages[code], of |-> k]

\* C13: in every track of the subtitles, and of the record built from them,
\* there is one entry per transcript segment; the entry of a segment whose
\* translation call raised carries the untranslated source text, every other
\* entry carries the translation, and the source track carries the source
\* text; this for every set of failed translation calls.
C13_FailedTranslationKeepsSourceText ==
    AudioSucceeded =>
        LET src == audio_log.source_language
            segs == audio_log.segments
        IN
        /\ DOMAIN audio_data = {src} \cup LangCodes
        /\ \A code \in DOMAIN audio_data :
              /\ Len(audio_data[code]) = Len(segs)
              /\ \A k \in 1..Len(segs) :
                    audio_data[code][k].text =
                       (IF code = src \/ <<code, k>> \in audio_log.failT
                        THEN segs[k].text
                        ELSE Translated(code, k))
        /\ RecordBuilt => Subtitles = audio_data

\* a record built from a two-segment transcript where translations failed
\* for both segments and for more than one language
C13_Witness ==
    /\ RecordBuilt
    /\ AudioSucceeded
    /\ Len(audio_log.segments) = 2
    /\ {<<"ar-AR", 1>>, <<"ar-AR", 2>>, <<"ta-IN", 2>>} \subseteq audio_log.failT
    /\ <<"ta-IN", 1>> \notin audio_log.failT
    /\ Subtitles["ta-IN"][2].text = audio_log.segments[2].text
    /\ Subtitles["ta-IN"][1].text # audio_log.segments[1].text

\* the number a string of decimal digits denotes
RECURSIVE DigitsValue(_)
DigitsValue(chars) ==
    IF chars = <<>> THEN 0
    ELSE 10 * DigitsValue(SubSeq(chars, 1, Len(chars) - 1))
         + (CHOOSE k \in 0..9 : DigitChars[k + 1] = chars[Len(chars)])

\* the positions of the colons of a string
Colons(str) == {i \in 1..Len(str) : str[i] = ":"}

\* the text between the colons before and after position i
FieldAt(str, i) ==
    LET before == {c \in Colons(str) : c < i}
        after == {c \in Colons(str) : c > i}
        from == IF before = {} THEN 1
                ELSE (CHOOSE c \in before : \A x \in before : x <= c) + 1
        to == IF after = {} THEN Len(str)
              ELSE (CHOOSE c \in after : \A x \in after : c <= x) - 1
    IN  SubSeq(str, from, to)

\* the duration of the record, as text, and of the stream, in seconds
DurationText == mm.structured_data.source.duration
DurationSeconds == Duration(video.total_frames, video.fps100)

\* C14: for a duration of s >= 0 seconds the text is HH:MM:SS:FF, four
\* fields of decimal digits, two digits each (more for HH of 100 and up),
\* where MM and SS are in 0..59, FF in 0..23, HH, MM, SS are the whole
\* seconds of s split into hours, minutes and seconds, and FF is the number
\* of whole 24ths in the rest of s, whatever the frame rate of the video.
C14_DurationFormat ==
    RecordBuilt =>
        LET s == DurationSeconds
            t == DurationText
            cs == Colons(t)
            hh == DigitsValue(FieldAt(t, 1))
            mi == DigitsValue(FieldAt(t, Len(t) - 6))
            ss == DigitsValue(FieldAt(t, Len(t) - 3))
            ff == DigitsValue(FieldAt(t, Len(t)))
            whole == hh * 3600 + mi * 60 + ss
        IN
        /\ Cardinality(cs) = 3
        /\ cs = {Len(t) - 8, Len(t) - 5, Len(t) - 2}
        /\ \A i \in (1..Len(t)) \ cs : \E k \in 1..10 : DigitChars[k] = t[i]
        /\ Len(t) >= 11
        /\ hh < 100 => Len(t) = 11
        /\ Len(t) > 11 => t[1] # "0"
        /\ mi \in 0..59
        /\ ss \in 0..59
        /\ ff \in 0..23
        \* whole <= s < whole + 1
        /\ RatLeq(Rat(whole, 1), s)
        /\ ~RatLeq(Rat(whole + 1, 1), s)
        \* whole + ff/24 <= s < whole + (ff + 1)/24
        /\ RatLeq(Rat(whole * 24 + ff, 24), s)
        /\ ~RatLeq(Rat(whole * 24 + ff + 1, 24), s)

\* the record of a stream of 251 frames at 2 fps (125.5 s) reads 00:02:05:12
C14_Witness ==
    /\ RecordBuilt
    /\ video.fps100 = 200
    /\ video.total_frames = 251
    /\ RatEq(DurationSeconds, Rat(1255, 10))
    /\ DurationText =
          <<"0", "0", ":", "0", "2", ":", "0", "5", ":", "1", "2">>

\* the exports of the history that asked for JSON
JsonExports == {i \in 1..Len(query.exports) : query.exports[i].format_type = "json"}

\* C15: for every record built by create_metadata_df, also one whose audio
\* stage failed, decoding and parsing the bytes of export_metadata("json")
\* gives a value equal to structured_data, field for field.
C15_JsonExportRoundTrip ==
    RecordBuilt =>
        /\ JsonParse(Utf8Decode(export_metadata(mm, "json").value))
              = mm.structured_data
        /\ \A i \in JsonExports :
              /\ "value" \in DOMAIN query.exports[i].result
              /\ JsonParse(Utf8Decode(query.exports[i].result.value))
                    = mm.structured_data

\* export_metadata("json") has returned the bytes of a record whose audio
\* stage failed and that has two events
C15_Witness ==
    /\ RecordBuilt
    /\ AudioFailed
    /\ Len(Events) = 2
    /\ query.pc = "returned"
    /\ query.call = "export_metadata"
    /\ Len(query.exports) >= 1
    /\ query.exports[Len(query.exports)].format_type = "json"
    /\ JsonParse(Utf8Decode(query.result.value)).source.subtitles
          = AudioError("transcribe")

\* C16: two calls of export_metadata("json") with no pipeline run between
\* them return the same bytes, and the calls leave the record as it was.
C16_JsonExportIdempotent ==
    /\ \A i \in JsonExports : \A j \in JsonExports :
          query.exports[i].result = query.exports[j].result
    /\ \A i \in JsonExports :
          query.exports[i].result = export_metadata(mm, "json")

\* export_metadata("json") has returned twice on a built record
C16_Witness ==
    /\ RecordBuilt
    /\ Len(query.exports) = 2
    /\ JsonExports = {1, 2}
    /\ query.pc = "returned"
    /\ "value" \in DOMAIN query.exports[1].result
    /\ query.result = query.exports[1].result

\* the five export formats of the design, under the names export_metadata
\* gives to the three it implements
DesignFormats == {"json", "csv", "excel", "subtitles-only", "scene-summary"}

\* C17: an export with a format outside the supported set raises ValueError,
\* and an export of a built record in any of the five formats of the design
\* returns data.
C17_ExportFormats ==
    \A i \in 1..Len(query.exports) :
        LET x == query.exports[i] IN
        /\ x.format_type \notin DesignFormats =>
              x.result = [exception |-> "ValueError"]
        /\ (x.format_type \in DesignFormats /\ RecordBuilt) =>
              "value" \in DOMAIN x.result

\* the file the record was uploaded as
UploadedFile == "file_1"

\* C18: once create_assistant_with_results has returned an id, the record
\* has been uploaded exactly once and the uploaded file is attached to the
\* assistant that answers the queries; a query uploads nothing.
C18_RecordAttachedToAssistant ==
    (assistant # None) =>
        /\ backend.files = 1
        /\ UploadedFile \in assistant.file_ids

\* C19: however two or more calls of query_assistant on the same assistant
\* interleave, every call works on a thread and a run of its own, the thread
\* holds its question only, what it returns is the answer to its own
\* question or the failure of its own run, and the assistant handle and the
\* record stay as the pipeline run left them.
C19_ConcurrentQueriesAreIsolated ==
    /\ assistant = [id |-> "asst_1", file_ids |-> {}]
    /\ mm = create_metadata_df(frame_metadata, timestamps, audio_data,
                               VideoMetadataOf(video), frame_numbers)
    /\ \A c \in Callers :
          LET call == query[c] IN
          /\ call.thread # 0 =>
                /\ call.thread \in 1..backend.threads
                /\ \A other \in Callers \ {c} :
                      query[other].thread # call.thread
                /\ \A i \in 1..Len(backend.messages[call.thread]) :
                      LET msg == backend.messages[call.thread][i] IN
                      IF msg.role = "user" THEN msg.content = c
                      ELSE msg.content.answers = c
          /\ call.run # 0 =>
                /\ backend.runs[call.run].thread_id = call.thread
                /\ \A other \in Callers \ {c} : query[other].run # call.run
          /\ call.pc = "returned" =>
                /\ call.result.value.answers \in {0, c}
                /\ call.result.value.text = AssistantAnswer =>
                      /\ call.result.value.answers = c
                      /\ backend.runs[call.run].status = "completed"
                /\ \A status \in FailedStatuses :
                      call.result.value.text = RunErrorMsg(status) =>
                         backend.runs[call.run].status = status

\* two calls have interleaved: the call that created its thread second got
\* its run first; one returned its own answer, the other the failure of its
\* own run
C19_Witness ==
    /\ query[1].thread = 2
    /\ query[2].thread = 1
    /\ query[1].run = 1
    /\ query[2].run = 2
    /\ query[1].pc = "returned"
    /\ query[2].pc = "returned"
    /\ query[1].result.value = Text(AssistantAnswer, 1)
    /\ query[2].result.value = Text("Error: Run cancelled", 0)

\* steps of a pipeline run, told by what they change
VisionCallStep == vision_log' # vision_log /\ vision_log' # <<>>
AudioStageStep == audio_log' # audio_log
CreateMetadataStep == mm' # mm
ContextCreationStep == pc = "assistant" /\ pc' # pc

\* C20: in a pipeline run, every vision call comes after sampling has
\* finished and analyzes the next sampled frame in frame order, one per
\* step; the audio stage runs after the last vision call;
\* create_metadata_df runs once, after both stages and before context
\* creation; and when sampling raises, create_metadata_df does not run.
C20_StagesRunInOrder ==
    [][/\ VisionCallStep =>
             /\ pc = "analyze" /\ cap = "released"
             /\ frame_numbers' = frame_numbers /\ timestamps' = timestamps
             /\ audio_log = None /\ mm.structured_data = None
             /\ Len(vision_log') = Len(vision_log) + 1
             /\ Len(vision_log') <= Len(frame_numbers)
             /\ \E outcome \in VisionOutcomes :
                   frame_metadata' = Append(frame_metadata,
                       analyze_frame(frame_numbers[Len(vision_log) + 1], outcome))
             /\ \A i \in 1..Len(vision_log) :
                   frame_numbers[i] < frame_numbers[Len(vision_log) + 1]
       /\ AudioStageStep =>
             /\ pc = "analyze" /\ cap = "released"
             /\ audio_log = None
             /\ Len(vision_log) = Len(frame_numbers)
             /\ vision_log' = vision_log
             /\ mm.structured_data = None
       /\ CreateMetadataStep =>
             /\ pc = "aggregate" /\ pc' = "assistant"
             /\ mm.structured_data = None /\ mm'.structured_data # None
             /\ Len(vision_log) = Len(frame_numbers)
             /\ audio_log # None /\ audio_log' = audio_log
             /\ assistant = None /\ backend.files = 0
             /\ run_error = NoError
       /\ ContextCreationStep =>
             /\ mm.structured_data # None /\ mm' = mm
       /\ (run_error' # NoError /\ pc # "assistant") =>
             /\ mm.structured_data = None /\ mm' = mm
             /\ pc' = "done"]_vars

\* a run of three frames has gone through every stage and created its
\* assistant
C20_Witness ==
    /\ pc = "done"
    /\ Len(vision_log) = 3
    /\ AudioSucceeded
    /\ RecordBuilt
    /\ assistant # None
    /\ run_error = NoError

\* C21: once the record is built, no step of a query, an export, a read
\* accessor or context creation changes structured_data, metadata_df or
\* video_metadata, in the manager or in the session; the three fields
\* change only in the step that calls create_metadata_df.
C21_RecordIsReadOnly ==
    [][/\ RecordBuilt =>
             /\ mm'.structured_data = mm.structured_data
             /\ mm'.metadata_df = mm.metadata_df
             /\ mm'.video_metadata = mm.video_metadata
             /\ session'.metadata_manager = session.metadata_manager
       /\ (mm' # mm \/ session'.metadata_manager # session.metadata_manager) =>
             /\ pc = "aggregate"
             /\ mm' = create_metadata_df(frame_metadata, timestamps,
                          audio_data, VideoMetadataOf(video), frame_numbers)
             /\ session'.metadata_manager = mm']_vars

\* after context creation, an export and a metadata query have been answered
\* from the record, which is still the one create_metadata_df built
C21_Witness ==
    /\ pc = "done"
    /\ assistant # None
    /\ Len(query.exports) = 1
    /\ "value" \in DOMAIN query.exports[1].result
    /\ query.pc = "returned"
    /\ query.call = "query_metadata"
    /\ query.result = [value |-> MetadataAnswer]
    /\ mm = create_metadata_df(frame_metadata, timestamps, audio_data,
                               VideoMetadataOf(video), frame_numbers)

\* the distance of the integer step from the rational n / d is at most 1/2
IsRounded(step, n, d) ==
    /\ 2 * (step * d - n) <= d
    /\ 2 * (n - step * d) <= d

\* C22: for a positive fps the decimation step of extract_frames is
\* fps * sample_rate rounded to the nearest integer (29.97 fps and 2 s give
\* 60), and the frames kept are those whose index is a multiple of the step.
C22_StepIsRounded ==
    (video.opened /\ video.fps100 > 0) =>
        LET step == FrameInterval(video.fps100, SampleRate) IN
        /\ IsRounded(step, video.fps100 * SampleRate, 100)
        /\ video.fps100 = 2997 => step = 60
        /\ step > 0 =>
              \A i \in 0..(current_frame - 1) :
                 (i % step = 0) <=> (\E k \in 1..Len(frame_numbers) :
                                        frame_numbers[k] = i)

\* a pipeline run has ended, processing and record construction without error
RunSucceeded == pc = "done" /\ run_error = NoError /\ RecordBuilt

\* C23: after a pipeline run whose processing and record construction
\* completed without error, the session flag video_processed is true and the
\* session holds the manager with the new record, so that the next render
\* shows the result views; the flag is false only while no run has
\* succeeded.
C23_SuccessSetsVideoProcessed ==
    /\ RunSucceeded =>
          /\ session.video_processed
          /\ session.metadata_manager = mm
    /\ ~session.video_processed => ~RunSucceeded

\* C24: once a pipeline run has created an assistant in the session, the
\* processor of every later rerun holds that assistant, and query_assistant
\* does not answer that no assistant is available.
C24_AssistantSurvivesRerun ==
    (session.current_assistant_id # None) =>
        /\ assistant # None
        /\ assistant.id = session.current_assistant_id.value
        /\ (query.pc = "returned" /\ query.call = "query_assistant") =>
              query.result.value # NoAssistantMsg

====
